---- MODULE Spec2Model ----
(***************************************************************************)
(* A model of cron/gitter_api.py: the GitterAPI client (request building,  *)
(* speculative rate-limit decrement, transport call, response deciphering, *)
(* conditional-request cache) shared by a few callers, and of the feed job *)
(* of cron/__main__.py with the reader of cron/rss_reader.py.              *)
(*                                                                         *)
(* Spec has the callers use the client one call at a time, SpecConcurrent  *)
(* lets their calls interleave, and SpecFeed is one run of the feed job.   *)
(*                                                                         *)
(* Python values are records tagged by their type in the field "py", so    *)
(* that None, str, int, list, dict and bytes stay distinguishable.  A str  *)
(* is a sequence of text tokens; its text is the concatenation of them.    *)
(***************************************************************************)
EXTENDS Integers, Sequences, FiniteSets, TLC

(***************************************************************************)
(* Bounds of the model.                                                    *)
(***************************************************************************)
\* How far below zero the speculative decrement may take the stored
\* remaining count before the callers stop issuing requests.
MaxDebt == 2
\* Concurrent callers (tasks) sharing the one client.
NumTasks == 2
\* Entries in the feed a run of the job reads.
MaxEntries == 3

Tasks == 1..NumTasks

(***************************************************************************)
(* Python values.                                                          *)
(***************************************************************************)
None == [py |-> "None"]
PyStr(tokens) == [py |-> "str", s |-> tokens]
PyInt(n) == [py |-> "int", n |-> n]
PyList(items) == [py |-> "list", items |-> items]
PyDict(m) == [py |-> "dict", m |-> m]
PyBytes(text) == [py |-> "bytes", b |-> text]

EmptyMap == [k \in {} |-> None]
\* The "no body" sentinel b"" of _make_request.
NoBody == PyBytes("")

\* Python truthiness of the values the client tests with "if x:".
Truthy(v) ==
    CASE v.py = "None" -> FALSE
      [] v.py = "str" -> v.s /= <<>>
      [] v.py = "int" -> v.n /= 0
      [] v.py = "list" -> v.items /= <<>>
      [] v.py = "dict" -> DOMAIN v.m /= {}
      [] OTHER -> TRUE

\* str(v) inside an f-string, as a token sequence.
Format(v) ==
    CASE v.py = "None" -> <<"None">>
      [] v.py = "str" -> v.s
      [] OTHER -> <<"<value>">>

\* repr() of a str: the text in single quotes.
Repr(v) == "'" \o v.s[1] \o "'"

(***************************************************************************)
(* The exception classes of the library and the Python built-ins the code  *)
(* lets escape.                                                            *)
(***************************************************************************)
\* The direct base class of each class.
Base ==
    [c \in {"GitterException", "HTTPException", "RedirectionException",
            "BadRequest", "RateLimitExceeded", "InvalidField", "GitterBroken"} |->
        CASE c = "GitterException" -> "Exception"
          [] c = "HTTPException" -> "GitterException"
          [] c = "RedirectionException" -> "HTTPException"
          [] c = "BadRequest" -> "HTTPException"
          [] c = "RateLimitExceeded" -> "BadRequest"
          [] c = "InvalidField" -> "BadRequest"
          [] c = "GitterBroken" -> "HTTPException"]

RECURSIVE IsSubclass(_, _)
IsSubclass(c, d) ==
    \/ c = d
    \/ c \in DOMAIN Base /\ IsSubclass(Base[c], d)

\* An exception object: its class and the attributes its __init__ sets.
\* status_code is 0 for an exception that is no HTTPException.
Exc(type, status_code, message, errors, rl) ==
    [type |-> type, status_code |-> status_code, message |-> message,
     errors |-> errors, rate_limit |-> rl]

Builtin(type) == Exc(type, 0, None, None, None)

\* http.HTTPStatus: the registered codes; HTTPStatus(n) raises ValueError
\* for any other n.
HTTPStatusCodes ==
    {100, 101, 102, 103, 200, 201, 202, 203, 204, 205, 206, 207, 208, 226,
     300, 301, 302, 303, 304, 305, 307, 308, 400, 401, 402, 403, 404, 405,
     406, 407, 408, 409, 410, 411, 412, 413, 414, 415, 416, 417, 418, 421,
     422, 423, 424, 425, 426, 428, 429, 431, 451, 500, 501, 502, 503, 504,
     505, 506, 507, 508, 510, 511}

\* HTTPStatus(n).phrase, for the codes the model sends.
Phrase(n) ==
    CASE n = 100 -> "Continue"
      [] n = 202 -> "Accepted"
      [] n = 302 -> "Found"
      [] n = 304 -> "Not Modified"
      [] n = 403 -> "Forbidden"
      [] n = 404 -> "Not Found"
      [] n = 422 -> "Unprocessable Entity"
      [] n = 500 -> "Internal Server Error"
      [] OTHER -> "<phrase>"

\* HTTPException.__init__(status_code, *args) and the subclasses that
\* inherit it: the message is args when given, else the status phrase.
HTTPException(type, status_code, args) ==
    Exc(type, status_code,
        IF args /= <<>> THEN args[1] ELSE PyStr(<<Phrase(status_code)>>),
        None, None)

\* RateLimitExceeded.__init__(rate_limit, *args).
RateLimitExceeded(rl, args) ==
    [HTTPException("RateLimitExceeded", 403,
                   IF args = <<>> THEN <<PyStr(<<"rate limit exceeded">>)>> ELSE args)
        EXCEPT !.rate_limit = rl]

\* InvalidField.__init__(errors, *args).
InvalidField(errors, args) ==
    [HTTPException("InvalidField", 422, args) EXCEPT !.errors = errors]

(***************************************************************************)
(* Operations that either return a value or raise.                         *)
(***************************************************************************)
Ok(v) == [raised |-> FALSE, val |-> v, exc |-> Builtin("")]
Err(e) == [raised |-> TRUE, val |-> None, exc |-> e]

(***************************************************************************)
(* Text conversions: int(), float() and json.loads() over the texts the    *)
(* transport of the model delivers.                                        *)
(***************************************************************************)
\* The texts int() and float() accept, with their values; any other text
\* makes them raise ValueError.
NumericText == ("0" :> 0) @@ ("4" :> 4) @@ ("5" :> 5) @@ ("2000" :> 2000)

ParseNumber(text) ==
    IF text \in DOMAIN NumericText THEN Ok(NumericText[text])
    ELSE Err(Builtin("ValueError"))

Doc1 == "{\"id\": 1}"
Doc2 == "{\"id\": 2}"
DocValidation == "{\"message\": \"Validation Failed\", \"errors\": [{\"field\": \"name\"}]}"
DocErrorsOnly == "{\"errors\": [{\"field\": \"name\"}, {\"field\": \"age\"}]}"
DocErrorsNoField == "{\"message\": \"Validation Failed\", \"errors\": [{\"code\": \"missing\"}]}"
DocMessage == "{\"message\": \"Not Found\"}"
DocEmptyObject == "{}"
DocArray == "[]"
DocMalformed == "<html>"

\* json.loads(body.decode("utf-8")): the decoded value, or JSONDecodeError.
json_loads(text) ==
    CASE text = Doc1 -> Ok(PyDict("id" :> PyInt(1)))
      [] text = Doc2 -> Ok(PyDict("id" :> PyInt(2)))
      [] text = DocValidation ->
            Ok(PyDict(("message" :> PyStr(<<"Validation Failed">>)) @@
                      ("errors" :> PyList(<<PyDict("field" :> PyStr(<<"name">>))>>))))
      [] text = DocErrorsOnly ->
            Ok(PyDict("errors" :> PyList(<<PyDict("field" :> PyStr(<<"name">>)),
                                           PyDict("field" :> PyStr(<<"age">>))>>)))
      [] text = DocErrorsNoField ->
            Ok(PyDict(("message" :> PyStr(<<"Validation Failed">>)) @@
                      ("errors" :> PyList(<<PyDict("code" :> PyStr(<<"missing">>))>>))))
      [] text = DocMessage -> Ok(PyDict("message" :> PyStr(<<"Not Found">>)))
      [] text = DocEmptyObject -> Ok(PyDict(EmptyMap))
      [] text = DocArray -> Ok(PyList(<<>>))
      [] OTHER -> Err(Builtin("JSONDecodeError"))

(***************************************************************************)
(* class RateLimit                                                         *)
(***************************************************************************)
\* The response headers a snapshot is built from.
RateHeaderNames == {"x-ratelimit-limit", "x-ratelimit-remaining", "x-ratelimit-reset"}

\* The header gives the reset time in milliseconds since the epoch.
MillisPerSecond == 1000

\* RateLimit.__init__.
RateLimit(limit, remaining, reset_epoch) ==
    [py |-> "RateLimit", limit |-> limit, remaining |-> remaining,
     reset_datetime |-> reset_epoch \div MillisPerSecond]

\* __bool__ that counts the reset instant itself as passed.
RateLimitBool_ResetInclusive(rl, now) ==
    IF rl.remaining > 0 THEN TRUE ELSE now >= rl.reset_datetime

\* RateLimit.__bool__, with now the value datetime.now() returns.
RateLimitBool(rl, now) ==
    IF rl.remaining > 0 THEN TRUE ELSE now > rl.reset_datetime

\* bool(x) for x a RateLimit or None.
RateLimitTruthy(rl, now) == rl /= None /\ RateLimitBool(rl, now)

\* from_http with the remaining count read from the limit header.
from_http_LimitAsRemaining(headers) ==
    IF RateHeaderNames \subseteq DOMAIN headers
       /\ \A n \in RateHeaderNames : ~ParseNumber(headers[n]).raised
    THEN Ok(RateLimit(ParseNumber(headers["x-ratelimit-limit"]).val,
                      ParseNumber(headers["x-ratelimit-limit"]).val,
                      ParseNumber(headers["x-ratelimit-reset"]).val))
    ELSE Ok(None)

\* RateLimit.from_http: the three headers are read and converted in order;
\* only KeyError is caught.
from_http(headers) ==
    LET limit == ParseNumber(headers["x-ratelimit-limit"])
        remaining == ParseNumber(headers["x-ratelimit-remaining"])
        reset_epoch == ParseNumber(headers["x-ratelimit-reset"])
    IN  IF "x-ratelimit-limit" \notin DOMAIN headers THEN Ok(None)
        ELSE IF limit.raised THEN limit
        ELSE IF "x-ratelimit-remaining" \notin DOMAIN headers THEN Ok(None)
        ELSE IF remaining.raised THEN remaining
        ELSE IF "x-ratelimit-reset" \notin DOMAIN headers THEN Ok(None)
        ELSE IF reset_epoch.raised THEN reset_epoch
        ELSE Ok(RateLimit(limit.val, remaining.val, reset_epoch.val))

(***************************************************************************)
(* GitterAPI.decipher_response                                             *)
(***************************************************************************)
\* data["message"] with TypeError and KeyError caught.
MessageOf(data) ==
    IF data.py = "dict" /\ "message" \in DOMAIN data.m THEN data.m["message"]
    ELSE None

RECURSIVE JoinFields(_)
\* ", ".join(repr(e["field"]) for e in errors), when every item has the key.
JoinFields(errors) ==
    IF errors = <<>> THEN <<>>
    ELSE IF Len(errors) = 1 THEN <<Repr(errors[1].m["field"])>>
    ELSE <<Repr(errors[1].m["field"]), ", ">> \o JoinFields(Tail(errors))

\* The status 422 branch: always leaves by an exception.
Decipher422(data, message) ==
    IF data.py /= "dict" THEN Builtin("AttributeError")
    ELSE LET errors == IF "errors" \in DOMAIN data.m THEN data.m["errors"] ELSE None
         IN  IF Truthy(errors)
             THEN IF \E i \in 1..Len(errors.items) :
                          "field" \notin DOMAIN errors.items[i].m
                  THEN Builtin("KeyError")
                  ELSE InvalidField(errors,
                          <<PyStr(Format(message) \o <<" for ">>
                                  \o JoinFields(errors.items))>>)
             ELSE IF "message" \notin DOMAIN data.m THEN Builtin("KeyError")
             ELSE InvalidField(errors, <<data.m["message"]>>)

\* The class chosen by the range of the status code.
ExcTypeOf(status_code) ==
    IF status_code >= 500 THEN "GitterBroken"
    ELSE IF status_code >= 400 THEN "BadRequest"
    ELSE IF status_code >= 300 THEN "RedirectionException"
    ELSE "HTTPException"

\* The end of the error path: the exception built from the status code.
RaiseByStatus(status_code, message) ==
    IF status_code \notin HTTPStatusCodes THEN Builtin("ValueError")
    ELSE HTTPException(ExcTypeOf(status_code), status_code,
                       IF Truthy(message) THEN <<message>> ELSE <<>>)

\* The status 403 branch: RateLimitExceeded, or on to the generic error.
Decipher403(headers, message, now) ==
    LET rate_limit == from_http(headers)
    IN  IF rate_limit.raised THEN rate_limit.exc
        ELSE IF RateLimitTruthy(rate_limit.val, now) /\ rate_limit.val.remaining = 0
             THEN RateLimitExceeded(rate_limit.val, <<message>>)
             ELSE RaiseByStatus(403, message)

\* The status codes decipher_response treats as success.
SuccessCodes == {200, 201, 204}

\* decipher_response(status_code, headers, body): Ok(<<data, rate_limit>>)
\* or the exception raised; now is what datetime.now() returns if asked.
decipher_response(status_code, headers, body, now) ==
    LET data == json_loads(body)
        message == MessageOf(data.val)
    IN  IF data.raised THEN data
        ELSE IF status_code \in SuccessCodes
        THEN LET rate_limit == from_http(headers)
             IN  IF rate_limit.raised THEN rate_limit
                 ELSE Ok(<<data.val, rate_limit.val>>)
        ELSE IF status_code >= 400 /\ status_code < 500 /\ status_code = 403
             THEN Err(Decipher403(headers, message, now))
        ELSE IF status_code >= 400 /\ status_code < 500 /\ status_code = 422
             THEN Err(Decipher422(data.val, message))
        ELSE Err(RaiseByStatus(status_code, message))

(***************************************************************************)
(* Inputs of the model: what callers pass and what the transport delivers. *)
(***************************************************************************)
Urls == {"/v1/rooms", "/v1/user"}

Payload1 == PyDict("text" :> PyStr(<<"hi">>))
\* What a caller passes as data to post, put and patch.
Payloads == {Payload1}

EmptyHeaders == [k \in {} |-> ""]

RateHeaders(limit, remaining, reset) ==
    ("x-ratelimit-limit" :> limit) @@ ("x-ratelimit-remaining" :> remaining)
        @@ ("x-ratelimit-reset" :> reset)

\* Rate-limit headers of a response: none, complete with requests left,
\* complete with none left, incomplete, and not numeric.
RateHeaderSets ==
    {EmptyHeaders,
     RateHeaders("5", "4", "2000"),
     RateHeaders("5", "0", "2000"),
     "x-ratelimit-limit" :> "5",
     RateHeaders("many", "4", "2000")}

Response(status, headers, body) ==
    [status |-> status, headers |-> headers, body |-> body]

\* The versions of a resource a server holds: each has its own validator
\* headers (possibly none) and its own body.
Versions ==
    {<<"etag" :> "v1", Doc1>>,
     <<("etag" :> "v2") @@ ("last-modified" :> "Sat, 01 Jan 2022"), Doc2>>,
     <<"last-modified" :> "Sun, 02 Jan 2022", DocArray>>,
     <<EmptyHeaders, DocEmptyObject>>}

\* Status codes outside the successes, across the ranges the client
\* distinguishes, registered and unregistered.
ErrorCodes == {100, 202, 299, 302, 304, 404, 500, 599}

Responses ==
    {Response(s, rh @@ ("etag" :> "v1"), Doc1) :
        s \in SuccessCodes, rh \in RateHeaderSets}
    \cup {Response(200, RateHeaders("5", "0", "2000") @@ v[1], v[2]) : v \in Versions}
    \cup {Response(200, "etag" :> "v1", DocMalformed)}
    \cup {Response(s, EmptyHeaders, DocMessage) : s \in ErrorCodes}
    \cup {Response(s, RateHeaders("5", "4", "2000"), DocArray) : s \in {304, 404}}
    \cup {Response(403, rh, DocMessage) : rh \in RateHeaderSets}
    \cup {Response(422, EmptyHeaders, b) :
            b \in {DocValidation, DocErrorsOnly, DocErrorsNoField, DocMessage,
                   DocEmptyObject, DocArray, DocMalformed}}

\* Values of datetime.now(), in seconds since the epoch.
Times == {1, 2, 3}

(***************************************************************************)
(* GitterAPI: construction and request building.                           *)
(***************************************************************************)
domain == "https://api.gitter.im"
requester == "trio-gitter-bot"
oauth_token == "<token>"

\* urllib.parse.urljoin(self.domain, url) for a path that starts with "/".
format_url(url) == domain \o url

\* The headers without the authorization.
create_request_headers_NoAuthorization ==
    ("user-agent" :> requester) @@ ("accept" :> "application/json")

create_request_headers ==
    ("user-agent" :> requester) @@ ("authorization" :> ("bearer " \o oauth_token))
        @@ ("accept" :> "application/json")

\* The two emoji that open the text of a chat message, as one token.
Emoji == "(robot)(question mark)"

\* json.dumps of a piece of text: ensure_ascii writes each code point
\* outside ASCII as \uXXXX escapes (a surrogate pair for the robot).
JsonEscape(token) == IF token = Emoji THEN "\\ud83e\\udd16\\u2753" ELSE token

RECURSIVE JsonText(_)
JsonText(tokens) ==
    IF tokens = <<>> THEN "" ELSE JsonEscape(Head(tokens)) \o JsonText(Tail(tokens))

\* json.dumps(data).encode("utf-8") for the payloads of the model: None
\* and an object with the one member "text".
json_dumps(data) ==
    CASE data = None -> "null"
      [] data.py = "dict" /\ DOMAIN data.m = {"text"} ->
            "{\"text\": \"" \o JsonText(data.m["text"].s) \o "\"}"
      [] OTHER -> "{}"

DigitText == <<"0", "1", "2", "3", "4", "5", "6", "7", "8", "9">>

RECURSIVE IntToText(_)
\* str(n) for n >= 0.
IntToText(n) ==
    IF n < 10 THEN DigitText[n + 1]
    ELSE IntToText(n \div 10) \o DigitText[(n % 10) + 1]

\* headers.get(name): the value as a str, or None.
HeaderGet(headers, name) ==
    IF name \in DOMAIN headers THEN PyStr(<<headers[name]>>) ELSE None

\* d[key] = value on a dict.
DictSet(d, key, value) ==
    PyDict([k \in (DOMAIN d.m) \cup {key} |-> IF k = key THEN value ELSE d.m[k]])

(***************************************************************************)
(* State.                                                                  *)
(***************************************************************************)
VARIABLES
    rate_limit,  \* self.rate_limit: None or the stored RateLimit object
    cache,       \* self._cache: None, or a dict url -> <<etag, last_modified, data>>
    frame,       \* per task: the locals of its _make_request call, if any
    result,      \* how the call that ended last ended, as its caller sees it
    job          \* the run of rss_to_gitter_job, if one is modelled

vars == <<rate_limit, cache, frame, result, job>>
\* The variables of the client.
client == <<rate_limit, cache, frame, result>>

\* A task that is in no call.
IdleFrame ==
    [pc |-> "idle", method |-> "", filled_url |-> "",
     request_headers |-> EmptyHeaders, body |-> "", cached |-> FALSE,
     cacheable |-> FALSE, data |-> None, sends |-> 0]

NoResponse == Response(0, EmptyHeaders, "")

NoResult ==
    [task |-> 0, frame |-> IdleFrame, response |-> NoResponse,
     kind |-> "none", value |-> None, exc |-> Builtin("")]

\* No run of the job: the callers of the client are arbitrary tasks.
NoJob ==
    [pc |-> "none", now |-> 0, newer_than |-> 0, entries |-> <<>>,
     rest |-> <<>>, posted |-> <<>>]

Init ==
    /\ rate_limit = None
    /\ cache \in {None, PyDict(EmptyMap)}
    /\ frame = [t \in Tasks |-> IdleFrame]
    /\ result = NoResult
    /\ job = NoJob

(***************************************************************************)
(* GitterAPI._make_request, up to the transport call.                      *)
(***************************************************************************)
\* The cache lookup that sends the etag only.
CacheHit_EtagOnly(f, entry) ==
    LET etag == entry[1]
    IN  [f EXCEPT !.data = entry[3], !.cached = TRUE,
                  !.request_headers =
                      IF etag /= None THEN ("if-none-match" :> etag.s[1]) @@ @ ELSE @]

\* The cache lookup of a cacheable request that hits: the conditional
\* headers and the cached body.
CacheHit(f, entry) ==
    LET etag == entry[1]
        last_modified == entry[2]
        h1 == IF etag /= None
              THEN ("if-none-match" :> etag.s[1]) @@ f.request_headers
              ELSE f.request_headers
        h2 == IF last_modified /= None
              THEN ("if-modified-since" :> last_modified.s[1]) @@ h1
              ELSE h1
    IN  [f EXCEPT !.data = entry[3], !.cached = TRUE, !.request_headers = h2]

\* Cacheable without the test of the method.
Cacheable_AnyMethod(method, c) == c /= None

\* A request is cacheable when it is a GET and a cache is configured; this
\* is asked only of a request without a body.
Cacheable(method, c) == method = "GET" /\ c /= None

\* The locals after the request is built.
BuildRequest(method, url, data, c) ==
    LET filled_url == format_url(url)
        f0 == [IdleFrame EXCEPT !.method = method, !.filled_url = filled_url,
                                !.request_headers = create_request_headers,
                                !.data = data]
    IN  IF data = NoBody
        THEN LET f1 == [f0 EXCEPT !.body = "",
                           !.request_headers = ("content-length" :> "0") @@ @]
             IN  IF Cacheable(method, c)
                 THEN LET f2 == [f1 EXCEPT !.cacheable = TRUE]
                      IN  IF filled_url \in DOMAIN c.m
                          THEN CacheHit(f2, c.m[filled_url])
                          ELSE f2
                 ELSE f1
        ELSE LET body == json_dumps(data)
             IN  [f0 EXCEPT !.body = body,
                     !.request_headers =
                         ("content-type" :> "application/json; charset=utf-8")
                         @@ ("content-length" :> IntToText(Len(body))) @@ @]

\* The decrement taken twice.
Decrement_Twice(rl) ==
    IF rl /= None THEN [rl EXCEPT !.remaining = @ - 2] ELSE rl

\* The speculative decrement: self.rate_limit.remaining -= 1.
Decrement(rl) ==
    IF rl /= None THEN [rl EXCEPT !.remaining = @ - 1] ELSE rl

\* The transport invoked a second time (a retry).
Transport_Twice(f) == [f EXCEPT !.sends = @ + 2, !.pc = "awaiting"]

\* self._request(...): the transport is invoked and the call suspends.
Transport(f) == [f EXCEPT !.sends = @ + 1, !.pc = "awaiting"]

\* The call whose decrement is lost when another request is in flight:
\* the count written back is the one that request had read.
MakeRequest_LostDecrement(t, method, url, data) ==
    /\ frame[t].pc = "idle"
    /\ rate_limit /= None => rate_limit.remaining > -MaxDebt
    /\ rate_limit' = IF \E u \in Tasks : frame[u].pc = "awaiting"
                     THEN rate_limit
                     ELSE Decrement(rate_limit)
    /\ frame' = [frame EXCEPT ![t] = Transport(BuildRequest(method, url, data, cache))]
    /\ result' = NoResult
    /\ UNCHANGED cache

\* A verb method is called: the request is built, the stored snapshot is
\* decremented and the transport is invoked, all before the first
\* suspension.  (The second conjunct is the bound MaxDebt, not code; the
\* caller has taken the outcome of the previous call, so result is reset.)
MakeRequest(t, method, url, data) ==
    /\ frame[t].pc = "idle"
    /\ rate_limit /= None => rate_limit.remaining > -MaxDebt
    /\ rate_limit' = Decrement(rate_limit)
    /\ frame' = [frame EXCEPT ![t] = Transport(BuildRequest(method, url, data, cache))]
    /\ result' = NoResult
    /\ UNCHANGED cache

\* The verb methods.
getitem(t, url) == MakeRequest(t, "GET", url, NoBody)
post(t, url, data) == MakeRequest(t, "POST", url, data)
patch(t, url, data) == MakeRequest(t, "PATCH", url, data)
put(t, url, data) == MakeRequest(t, "PUT", url, data)
delete(t, url) == MakeRequest(t, "DELETE", url, NoBody)

(***************************************************************************)
(* GitterAPI._make_request, from the transport's answer on.                *)
(***************************************************************************)
\* The short-circuit never taken.
NotModified_Never(status, cached) == FALSE

\* The 304 short-circuit is taken.
NotModified(status, cached) == status = 304 /\ cached

\* The cache written with the body the request had found in it.
StoreCache_KeepsCachedBody(c, f, headers, data) ==
    IF c /= None /\ f.cacheable
       /\ ("etag" \in DOMAIN headers \/ "last-modified" \in DOMAIN headers)
    THEN DictSet(c, f.filled_url,
                 <<HeaderGet(headers, "etag"), HeaderGet(headers, "last-modified"),
                   IF f.cached THEN f.data ELSE data>>)
    ELSE c

\* The cache written with the validators of the entry it replaces.
StoreCache_KeepsOldValidators(c, f, headers, data) ==
    IF c /= None /\ f.cacheable
       /\ ("etag" \in DOMAIN headers \/ "last-modified" \in DOMAIN headers)
    THEN DictSet(c, f.filled_url,
                 IF f.filled_url \in DOMAIN c.m
                 THEN <<c.m[f.filled_url][1], c.m[f.filled_url][2], data>>
                 ELSE <<HeaderGet(headers, "etag"),
                        HeaderGet(headers, "last-modified"), data>>)
    ELSE c

\* The cache after a deciphered response.
StoreCache(c, f, headers, data) ==
    LET has_cache_details == "etag" \in DOMAIN headers
                             \/ "last-modified" \in DOMAIN headers
    IN  IF c /= None /\ f.cacheable /\ has_cache_details
        THEN DictSet(c, f.filled_url,
                     <<HeaderGet(headers, "etag"),
                       HeaderGet(headers, "last-modified"), data>>)
        ELSE c

\* The call ends: its caller gets a value or an exception.
Finish(t, response, kind, value, exc) ==
    /\ result' = [task |-> t, frame |-> frame[t],
                  response |-> response, kind |-> kind, value |-> value,
                  exc |-> exc]
    /\ frame' = [frame EXCEPT ![t] = IdleFrame]

\* The response handled with the cache read again at the 304.
Respond_RereadsCache(t, response, now) ==
    /\ frame[t].pc = "awaiting"
    /\ IF NotModified(response.status, frame[t].cached)
       THEN /\ Finish(t, response, "return", cache.m[frame[t].filled_url][3],
                      Builtin(""))
            /\ UNCHANGED <<rate_limit, cache>>
       ELSE LET d == decipher_response(response.status, response.headers,
                                       response.body, now)
            IN  IF d.raised
                THEN /\ Finish(t, response, "raise", None, d.exc)
                     /\ UNCHANGED <<rate_limit, cache>>
                ELSE /\ rate_limit' = d.val[2]
                     /\ cache' = StoreCache(cache, frame[t], response.headers, d.val[1])
                     /\ Finish(t, response, "return", d.val[1], Builtin(""))

\* The transport delivers response to the call of task t, which runs to
\* its end; now is what datetime.now() returns if it is asked.
Respond(t, response, now) ==
    /\ frame[t].pc = "awaiting"
    /\ IF NotModified(response.status, frame[t].cached)
       THEN /\ Finish(t, response, "return", frame[t].data, Builtin(""))
            /\ UNCHANGED <<rate_limit, cache>>
       ELSE LET d == decipher_response(response.status, response.headers,
                                       response.body, now)
            IN  IF d.raised
                THEN /\ Finish(t, response, "raise", None, d.exc)
                     /\ UNCHANGED <<rate_limit, cache>>
                ELSE /\ rate_limit' = d.val[2]
                     /\ cache' = StoreCache(cache, frame[t], response.headers, d.val[1])
                     /\ Finish(t, response, "return", d.val[1], Builtin(""))

\* The transport failure with the decrement given back.
TransportFail_RollsBack(t) ==
    /\ frame[t].pc = "awaiting"
    /\ Finish(t, NoResponse, "raise", None, Builtin("TransportError"))
    /\ rate_limit' = IF rate_limit /= None
                     THEN [rate_limit EXCEPT !.remaining = @ + 1]
                     ELSE rate_limit
    /\ UNCHANGED cache

\* The transport call raises (connection error, timeout, cancellation).
TransportFail(t) ==
    /\ frame[t].pc = "awaiting"
    /\ Finish(t, NoResponse, "raise", None, Builtin("TransportError"))
    /\ UNCHANGED <<rate_limit, cache>>

\* The clock is read only by bool() of a RateLimit that has no request
\* left, which only the status 403 branch evaluates.
ClockReadings(response) == IF response.status = 403 THEN Times ELSE {0}

\* No call is in flight: callers use the client one at a time.
Quiet == \A t \in Tasks : frame[t].pc = "idle"

Next ==
    \/ \E t \in Tasks, url \in Urls :
            Quiet /\ getitem(t, url) /\ UNCHANGED job
    \/ \E t \in Tasks, url \in Urls, data \in Payloads :
            Quiet /\ post(t, url, data) /\ UNCHANGED job
    \/ \E t \in Tasks, url \in Urls, data \in Payloads :
            Quiet /\ patch(t, url, data) /\ UNCHANGED job
    \/ \E t \in Tasks, url \in Urls, data \in Payloads :
            Quiet /\ put(t, url, data) /\ UNCHANGED job
    \/ \E t \in Tasks, url \in Urls :
            Quiet /\ delete(t, url) /\ UNCHANGED job
    \/ \E t \in Tasks, response \in Responses :
            \E now \in ClockReadings(response) :
                Respond(t, response, now) /\ UNCHANGED job
    \/ \E t \in Tasks : TransportFail(t) /\ UNCHANGED job

Spec == Init /\ [][Next]_vars

(***************************************************************************)
(* cron/rss_reader.py and rss_to_gitter_job of cron/__main__.py: one run   *)
(* of the job, which reads the feed and posts a chat message per entry     *)
(* that read_feed yields.  Times are minutes on the clock of the host,     *)
(* taken to be the clock the feed's timestamps are written in.             *)
(***************************************************************************)
\* timedelta(minutes=10).
TenMinutes == 10

\* The published timestamps of the feeds of the model, and what
\* datetime.fromisoformat(entry["published"].replace("Z", "")) makes of them.
PublishedMinutes ==
    ("2022-01-01T00:05:00Z" :> 5) @@ ("2022-01-01T00:10:00Z" :> 10)
        @@ ("2022-01-01T00:15:00Z" :> 15)

fromisoformat(text) == PublishedMinutes[text]

\* The i-th entry of a feed.
Entry(i, published) ==
    [title |-> "question " \o IntToText(i),
     link |-> "https://stackoverflow.com/q/" \o IntToText(i),
     published |-> published]

\* feedparser.parse(self.feed_url).entries: what the feed may hold.
Feeds ==
    UNION {{[i \in 1..n |-> Entry(i, p[i])] : p \in [1..n -> DOMAIN PublishedMinutes]} :
              n \in 0..MaxEntries}

\* Values of datetime.now() when the job runs.
JobTimes == {20, 25}

\* RSSReader.read_feed(newer_than): the entries the generator yields, in
\* order.
read_feed(entries, newer_than) ==
    IF entries = <<>> THEN <<>>
    ELSE IF fromisoformat(entries[1].published) < newer_than THEN <<>>
    ELSE Tail(entries)

ROOM_ID == "<room>"
ChatMessagesUrl == "/v1/rooms/" \o ROOM_ID \o "/chatMessages"

\* The data posted for entry e (the backquotes around python-trio are
\* written as apostrophes here).
Message(e) ==
    PyDict("text" :> PyStr(<<Emoji, " New 'python-trio' question on stackoverflow: [",
                             e.title, "](", e.link, ")">>))

\* The task that runs the job.
JobTask == 1

\* What the chat-room API answers to a post.
JobResponses ==
    {Response(200, RateHeaders("5", "4", "2000") @@ ("etag" :> "v1"), Doc1),
     Response(500, EmptyHeaders, DocMessage)}

\* The job is scheduled: a fresh client without cache, a feed and a clock.
InitFeed ==
    /\ rate_limit = None
    /\ cache = None
    /\ frame = [t \in Tasks |-> IdleFrame]
    /\ result = NoResult
    /\ job \in {[NoJob EXCEPT !.pc = "scheduled", !.now = now, !.entries = entries] :
                  now \in JobTimes, entries \in Feeds}

\* The job starts: ten_minutes_ago is computed and the feed is read.
StartJob ==
    /\ job.pc = "scheduled"
    /\ job' = [job EXCEPT !.pc = "loop",
                          !.newer_than = job.now - TenMinutes,
                          !.rest = read_feed(job.entries, job.now - TenMinutes)]
    /\ UNCHANGED client

\* The loop body: gitter_api.post for the next entry yielded.
PostEntry ==
    /\ job.pc = "loop"
    /\ job.rest /= <<>>
    /\ post(JobTask, ChatMessagesUrl, Message(Head(job.rest)))
    /\ job' = [job EXCEPT !.pc = "posting", !.rest = Tail(@),
                          !.posted = Append(@, Head(job.rest))]

\* The post is answered: the loop goes on, or the exception ends the job.
PostAnswered(response) ==
    /\ job.pc = "posting"
    /\ Respond(JobTask, response, 0)
    /\ job' = [job EXCEPT !.pc = IF result'.kind = "return" THEN "loop" ELSE "failed"]

\* The transport fails under the post: the exception ends the job.
PostFails ==
    /\ job.pc = "posting"
    /\ TransportFail(JobTask)
    /\ job' = [job EXCEPT !.pc = "failed"]

\* The generator is exhausted: the job is done.
EndJob ==
    /\ job.pc = "loop"
    /\ job.rest = <<>>
    /\ job' = [job EXCEPT !.pc = "done"]
    /\ UNCHANGED client

NextFeed ==
    \/ StartJob
    \/ PostEntry
    \/ \E response \in JobResponses : PostAnswered(response)
    \/ PostFails
    \/ EndJob

SpecFeed == InitFeed /\ [][NextFeed]_vars

(***************************************************************************)
(* Several callers share the client and its cache: a call suspends at the  *)
(* transport call and nowhere else, so calls interleave at the steps of    *)
(* MakeRequest (up to the await) and Respond or TransportFail (from it).   *)
(***************************************************************************)
\* The versions the server may hold of the resource at each resolved URL:
\* validator headers and body.
ServerVersions(filled_url) ==
    IF filled_url = format_url("/v1/rooms")
    THEN {<<"etag" :> "v1", Doc1>>,
          <<("etag" :> "v2") @@ ("last-modified" :> "Sat, 01 Jan 2022"), Doc2>>}
    ELSE {<<"etag" :> "v1", DocEmptyObject>>,
          <<"last-modified" :> "Sun, 02 Jan 2022", DocArray>>}

\* What the transport may deliver to the request of frame f: a version of
\* the resource at its URL, not modified, or a server error.
Answers(f) ==
    {Response(200, RateHeaders("5", "0", "2000") @@ v[1], v[2]) :
        v \in ServerVersions(f.filled_url)}
    \cup {Response(304, EmptyHeaders, DocMessage),
          Response(500, EmptyHeaders, DocMessage)}

\* A client with a cache configured, no call made yet.
InitConcurrent ==
    /\ rate_limit = None
    /\ cache = PyDict(EmptyMap)
    /\ frame = [t \in Tasks |-> IdleFrame]
    /\ result = NoResult
    /\ job = NoJob

NextConcurrent ==
    \/ \E t \in Tasks, url \in Urls : getitem(t, url) /\ UNCHANGED job
    \/ \E t \in Tasks, url \in Urls, data \in Payloads :
            post(t, url, data) /\ UNCHANGED job
    \/ \E t \in Tasks : \E response \in Answers(frame[t]) :
            Respond(t, response, 0) /\ UNCHANGED job
    \/ \E t \in Tasks : TransportFail(t) /\ UNCHANGED job

SpecConcurrent == InitConcurrent /\ [][NextConcurrent]_vars

(***************************************************************************)
(* Vocabulary of the properties.                                           *)
(***************************************************************************)
\* All three rate-limit headers are present and numeric.
NumericRateHeaders(headers) ==
    /\ RateHeaderNames \subseteq DOMAIN headers
    /\ \A n \in RateHeaderNames : headers[n] \in DOMAIN NumericText

\* The snapshot a response's headers describe: limit, remaining and the
\* reset time, or None when one of the headers is missing.
SnapshotIn(headers) ==
    IF NumericRateHeaders(headers)
    THEN [py |-> "RateLimit",
          limit |-> NumericText[headers["x-ratelimit-limit"]],
          remaining |-> NumericText[headers["x-ratelimit-remaining"]],
          reset_datetime |->
              NumericText[headers["x-ratelimit-reset"]] \div MillisPerSecond]
    ELSE None

\* A call has just ended and result tells how.
Ended == result.kind /= "none"
\* ... and the transport had delivered a response to it.
Answered == Ended /\ result.response /= NoResponse
\* ... and it ended on the 304 short-circuit.
ServedFromCache == Answered /\ result.response.status = 304 /\ result.frame.cached

Returned(value) == result.kind = "return" /\ result.value = value
Raised(type) == result.kind = "raise" /\ IsSubclass(result.exc.type, type)

HasValidators(headers) == "etag" \in DOMAIN headers \/ "last-modified" \in DOMAIN headers

\* The cache entry a response describes.
EntryIn(response) ==
    <<HeaderGet(response.headers, "etag"),
      HeaderGet(response.headers, "last-modified"), json_loads(response.body).val>>

\* Task t issues a request in this step.
Starts(t) == frame[t].pc = "idle" /\ frame'[t].pc = "awaiting"
\* The call of task t ends in this step.
Completes(t) == frame[t].pc = "awaiting" /\ frame'[t].pc = "idle"

(***************************************************************************)
(* Properties.                                                             *)
(***************************************************************************)

\* C1: a response with status 403 whose three rate-limit headers are
\* present, with x-ratelimit-remaining 0, makes the call raise
\* RateLimitExceeded carrying a snapshot whose remaining is 0, whatever the
\* reset time is relative to now.
C1_RateLimitExceededOn403 ==
    (/\ Answered
     /\ result.response.status = 403
     /\ NumericRateHeaders(result.response.headers)
     /\ result.response.headers["x-ratelimit-remaining"] = "0")
    => /\ Raised("RateLimitExceeded")
       /\ result.exc.rate_limit /= None
       /\ result.exc.rate_limit.remaining = 0

\* C2: a call whose response has status 200, 201 or 204 and a body that
\* parses as JSON returns the decoded body, and the stored snapshot is then
\* the one the response's headers describe (None when they lack the
\* rate-limit headers).
C2_SuccessReturnsBodyAndSnapshot ==
    (/\ Answered
     /\ result.response.status \in {200, 201, 204}
     /\ ~json_loads(result.response.body).raised)
    => /\ Returned(json_loads(result.response.body).val)
       /\ rate_limit = SnapshotIn(result.response.headers)

\* C3: a GET that found a cache entry for its URL and is answered with 304
\* returns the cached body without raising; the call leaves the cache as
\* it was and does not replace the stored snapshot at the response.
C3_NotModifiedServesCache ==
    [][\A t \in Tasks :
          /\ Starts(t) => cache' = cache
          /\ \A response \in Responses :
                (/\ Completes(t)
                 /\ frame[t].cached
                 /\ result'.response = response
                 /\ response.status = 304)
                => /\ result'.kind = "return"
                   /\ result'.value = cache.m[frame[t].filled_url][3]
                   /\ cache' = cache
                   /\ rate_limit' = rate_limit]_vars

C3_witness ==
    /\ ServedFromCache
    /\ Returned(PyDict("id" :> PyInt(1)))
    /\ cache.m[result.frame.filled_url] = <<PyStr(<<"v1">>), None, PyDict("id" :> PyInt(1))>>
    /\ rate_limit /= None

\* C4: with a cache configured, a GET that ends in a success whose response
\* carries etag or last-modified leaves, for its URL, exactly that
\* response's etag, last-modified and decoded body in the cache, whatever
\* was there before; no other step changes an entry; and a GET answered
\* with 304 returns the body of the entry then stored, which is therefore
\* the body of the most recent such response.
C4_CacheHoldsLatestResponse ==
    [][\A t \in Tasks :
          LET url == frame[t].filled_url
              stores == /\ Completes(t)
                        /\ frame[t].cacheable
                        /\ result'.kind = "return"
                        /\ result'.response.status \in {200, 201, 204}
                        /\ HasValidators(result'.response.headers)
          IN  /\ stores => /\ url \in DOMAIN cache'.m
                           /\ cache'.m[url] = EntryIn(result'.response)
              /\ (Completes(t) /\ ~stores) => cache' = cache
              /\ (/\ Completes(t)
                  /\ frame[t].cached
                  /\ result'.response.status = 304)
                 => /\ result'.kind = "return"
                    /\ result'.value = cache.m[url][3]]_vars

\* A GET that had found the entry of version v1 got version v2: the entry
\* is overwritten.
C4_witness ==
    /\ Returned(PyDict("id" :> PyInt(2)))
    /\ result.frame.cached
    /\ result.frame.data = PyDict("id" :> PyInt(1))
    /\ cache.m[result.frame.filled_url] =
          <<PyStr(<<"v2">>), PyStr(<<"Sat, 01 Jan 2022">>), PyDict("id" :> PyInt(2))>>

\* C5 as stated: after any response that is not a 304 served from the
\* cache, error responses included, the stored snapshot is the one that
\* response's headers describe.
C5_SnapshotUpdatedByEveryResponse ==
    (/\ Answered
     /\ ~ServedFromCache
     /\ ~json_loads(result.response.body).raised
     /\ DOMAIN result.response.headers \cap RateHeaderNames \in {{}, RateHeaderNames}
     /\ \A n \in DOMAIN result.response.headers \cap RateHeaderNames :
            result.response.headers[n] \in DOMAIN NumericText)
    => rate_limit = SnapshotIn(result.response.headers)

\* C5 amended: a call that returns, other than by the 304 short-circuit,
\* leaves as stored snapshot the one its response's headers describe; a
\* call that raises (error status, malformed body, transport failure)
\* leaves the stored snapshot as it was when the call resumed.
C5_SnapshotUpdatedOnSuccessOnly ==
    [][\A t \in Tasks :
          Completes(t) =>
            /\ (result'.kind = "return"
                /\ ~(result'.response.status = 304 /\ frame[t].cached))
               => rate_limit' = SnapshotIn(result'.response.headers)
            /\ result'.kind = "raise" => rate_limit' = rate_limit]_vars

\* An error response that carries rate-limit headers ended a call and the
\* stored snapshot is not the one it describes.
C5_witness ==
    /\ Raised("BadRequest")
    /\ result.response.status = 404
    /\ NumericRateHeaders(result.response.headers)
    /\ rate_limit /= None
    /\ rate_limit /= SnapshotIn(result.response.headers)

\* The errors member of a decoded body, None when it has none.
ErrorsIn(data) ==
    IF data.py = "dict" /\ "errors" \in DOMAIN data.m THEN data.m["errors"] ELSE None

\* The text tokens of a message.
Tokens(message) == {message.s[i] : i \in 1..Len(message.s)}

\* C6: a response with status 422 and a body that parses as JSON, whatever
\* the body holds, makes the call raise InvalidField carrying the body's
\* errors list (None when it has none); the message names every field
\* listed.
C6_InvalidFieldOn422 ==
    (/\ Answered
     /\ result.response.status = 422
     /\ ~json_loads(result.response.body).raised)
    => LET errors == ErrorsIn(json_loads(result.response.body).val)
       IN  /\ Raised("InvalidField")
           /\ result.exc.errors = errors
           /\ errors /= None =>
                \A i \in 1..Len(errors.items) :
                    Repr(errors.items[i].m["field"]) \in Tokens(result.exc.message)

\* The classes the claim allows for a status code.
ClassesFor(status) ==
    IF status >= 500 THEN {"GitterBroken"}
    ELSE IF status >= 400 THEN {"BadRequest", "RateLimitExceeded", "InvalidField"}
    ELSE IF status >= 300 THEN {"RedirectionException"}
    ELSE {"HTTPException"}

\* C7: a response with a status from 100 to 599 other than 200, 201, 204
\* and a body that parses as JSON makes the call (unless it is a 304 served
\* from the cache) raise the error class of the status's range, carrying
\* that status code.  Stated for the statuses other than 403 and 422,
\* whose branches are the matter of C1 and C6.
C7_ErrorClassByRange ==
    (/\ Answered
     /\ ~ServedFromCache
     /\ result.response.status \in 100..599
     /\ result.response.status \notin {200, 201, 204}
     /\ result.response.status \notin {403, 422}
     /\ ~json_loads(result.response.body).raised)
    => /\ result.kind = "raise"
       /\ result.exc.type \in ClassesFor(result.response.status)
       /\ result.exc.status_code = result.response.status

\* C8: a step that issues a request invokes the transport once and leaves
\* the stored snapshot absent if it was absent, and otherwise the same
\* snapshot with remaining lower by exactly one, so that this is what is
\* stored while the request is in flight; a step that ends a call never
\* decrements: it leaves the snapshot alone or installs the one parsed from
\* the response.
C8_DecrementOncePerRequest ==
    [][\A t \in Tasks :
          /\ Starts(t) =>
                /\ frame'[t].sends = 1
                /\ rate_limit = None => rate_limit' = None
                /\ rate_limit /= None =>
                      /\ rate_limit' /= None
                      /\ rate_limit'.remaining = rate_limit.remaining - 1
                      /\ rate_limit'.limit = rate_limit.limit
                      /\ rate_limit'.reset_datetime = rate_limit.reset_datetime
          /\ Completes(t) =>
                \/ rate_limit' = rate_limit
                \/ /\ result'.kind = "return"
                   /\ rate_limit' = SnapshotIn(result'.response.headers)]_vars

\* A request is in flight and the snapshot parsed from remaining = 4 shows 3.
C8_witness ==
    /\ \E t \in Tasks : frame[t].pc = "awaiting" /\ frame[t].sends = 1
    /\ rate_limit /= None
    /\ rate_limit.remaining = 3

\* C9: a call invokes the transport exactly once: a call in flight has
\* invoked it once, and a call that has ended, by a value, a classified
\* error or a transport failure, has invoked it once and is over.
C9_OneTransportCallPerCall ==
    /\ \A t \in Tasks :
          /\ frame[t].pc = "awaiting" => frame[t].sends = 1
          /\ frame[t].pc = "idle" => frame[t].sends = 0
    /\ Ended => /\ result.frame.sends = 1
                /\ frame[result.task].pc = "idle"

\* A call issued with an exhausted snapshot and a cache entry for its URL
\* ended in a classified error.
C9_witness ==
    /\ Raised("HTTPException")
    /\ result.frame.cached
    /\ result.frame.sends = 1
    /\ rate_limit /= None
    /\ rate_limit.remaining < 0

\* C10: a step changes the cache only if it ends a GET without body, with
\* a cache configured, in a success whose response carries etag or
\* last-modified; it then changes the entry of that call's URL only.
C10_CacheWrittenOnlyByCacheableSuccess ==
    [][cache' /= cache =>
          \E t \in Tasks :
              /\ Completes(t)
              /\ frame[t].method = "GET"
              /\ frame[t].body = ""
              /\ "content-type" \notin DOMAIN frame[t].request_headers
              /\ cache /= None
              /\ result'.kind = "return"
              /\ result'.response.status \in {200, 201, 204}
              /\ HasValidators(result'.response.headers)
              /\ DOMAIN cache'.m = DOMAIN cache.m \cup {frame[t].filled_url}
              /\ \A u \in DOMAIN cache.m \ {frame[t].filled_url} :
                    cache'.m[u] = cache.m[u]]_vars

\* A DELETE ended in a success that carries validators, with a cache
\* configured, and the cache holds nothing.
C10_witness ==
    /\ result.kind = "return"
    /\ result.frame.method = "DELETE"
    /\ result.response.status = 200
    /\ HasValidators(result.response.headers)
    /\ cache = PyDict(EmptyMap)

\* C11: building a snapshot from the headers of a response never raises;
\* when one of the three headers is absent or not numeric the result is
\* None; and a call answered with a success whose body parses returns that
\* body (and stores None as snapshot) even with such headers.
C11_FromHttpNeverRaises ==
    Answered =>
        LET headers == result.response.headers
            built == from_http(headers)
        IN  /\ ~built.raised
            /\ ~NumericRateHeaders(headers) => built.val = None
            /\ (/\ result.response.status \in SuccessCodes
                /\ ~NumericRateHeaders(headers)
                /\ ~json_loads(result.response.body).raised)
               => /\ Returned(json_loads(result.response.body).val)
                  /\ rate_limit = None

\* The entries of the feed published at or after the cutoff, in feed order.
PublishedSince(entries, newer_than) ==
    LET Fresh(e) == fromisoformat(e.published) >= newer_than
    IN  SelectSeq(entries, Fresh)

\* C12: a run of the job that ends without an error has posted exactly the
\* entries of the feed published at or after the cutoff (ten minutes
\* before the run), the first entry of the feed included, each once, and
\* none published before the cutoff.
C12_RelaysEntriesSinceCutoff ==
    job.pc = "done" =>
        /\ job.newer_than = job.now - TenMinutes
        /\ job.posted = PublishedSince(job.entries, job.newer_than)

\* The request that the call of task t has handed to the transport.
Produced(t) == frame[t].pc = "awaiting"

\* The verbs whose method takes a payload, and those that take none.
PayloadVerbs == {"POST", "PUT", "PATCH"}
BodylessVerbs == {"GET", "DELETE"}

\* Header name of request headers h has value v.
Carries(h, name, v) == name \in DOMAIN h /\ h[name] = v

\* C13: every request handed to the transport carries user-agent,
\* authorization "bearer <token>" and accept application/json; a POST, PUT
\* or PATCH of the payload {"text": "hi"} has content-type
\* application/json; charset=utf-8, the body {"text": "hi"} as json.dumps
\* writes it, and content-length 14, the length of that body; a GET or
\* DELETE has an empty body, content-length 0 and no content-type.
C13_RequestHeadersAndBody ==
    \A t \in Tasks :
        Produced(t) =>
            LET f == frame[t]
                h == f.request_headers
            IN  /\ Carries(h, "user-agent", "trio-gitter-bot")
                /\ Carries(h, "authorization", "bearer " \o oauth_token)
                /\ Carries(h, "accept", "application/json")
                /\ f.method \in PayloadVerbs \cup BodylessVerbs
                /\ f.method \in PayloadVerbs =>
                      /\ f.data = Payload1
                      /\ Carries(h, "content-type", "application/json; charset=utf-8")
                      /\ f.body = "{\"text\": \"hi\"}"
                      /\ Carries(h, "content-length", "14")
                      /\ Len(f.body) = 14
                /\ f.method \in BodylessVerbs =>
                      /\ f.body = ""
                      /\ Carries(h, "content-length", "0")
                      /\ "content-type" \notin DOMAIN h

\* A PATCH with a payload is in flight, sent while a snapshot was stored.
C13_witness ==
    \E t \in Tasks :
        /\ Produced(t)
        /\ frame[t].method = "PATCH"
        /\ frame[t].body = "{\"text\": \"hi\"}"
        /\ frame[t].request_headers["content-length"] = "14"
        /\ rate_limit /= None

\* The entry the cache holds for url, or <<None, None, None>> when it
\* holds none (or no cache is configured).
Stored(c, url) ==
    IF c /= None /\ url \in DOMAIN c.m THEN c.m[url] ELSE <<None, None, None>>

\* C14: the request a call produces carries if-none-match exactly when it
\* is a GET without body, a cache is configured and holds, for the
\* resolved URL, an entry with an etag, and the value is that etag; it
\* carries if-modified-since exactly when that entry has a last-modified,
\* with that value.  Other verbs, GETs without cache and GETs that miss
\* the cache carry neither header.
C14_ConditionalHeadersFromCache ==
    [][\A t \in Tasks :
          Starts(t) =>
            LET f == frame'[t]
                h == f.request_headers
                entry == IF f.method = "GET" /\ f.body = ""
                         THEN Stored(cache, f.filled_url)
                         ELSE <<None, None, None>>
            IN  /\ "if-none-match" \in DOMAIN h <=> entry[1] /= None
                /\ "if-none-match" \in DOMAIN h =>
                      PyStr(<<h["if-none-match"]>>) = entry[1]
                /\ "if-modified-since" \in DOMAIN h <=> entry[2] /= None
                /\ "if-modified-since" \in DOMAIN h =>
                      PyStr(<<h["if-modified-since"]>>) = entry[2]]_vars

\* A GET is in flight with the last-modified of the entry stored for its
\* URL and no if-none-match, that entry having no etag.
C14_witness ==
    \E t \in Tasks :
        /\ Produced(t)
        /\ frame[t].method = "GET"
        /\ Stored(cache, frame[t].filled_url)[1] = None
        /\ Stored(cache, frame[t].filled_url)[2] = PyStr(<<"Sun, 02 Jan 2022">>)
        /\ "if-none-match" \notin DOMAIN frame[t].request_headers
        /\ Carries(frame[t].request_headers, "if-modified-since", "Sun, 02 Jan 2022")

\* The snapshot rl with its remaining count lowered by n.
Lowered(rl, n) == [rl EXCEPT !.remaining = @ - n]

\* C15: a call that fails (the transport raises, the response is
\* classified as an error, or its body is not JSON) leaves the stored
\* snapshot as its own send left it: the step that issues the request
\* lowers remaining by exactly one and keeps limit and reset time, and the
\* step in which the call fails neither gives the decrement back nor
\* replaces the snapshot.  (In Spec a call is these two steps and no other
\* step comes between them.)  Nothing keeps remaining at or above zero.
C15_FailureKeepsDecrement ==
    [][/\ \E t \in Tasks : (Quiet /\ Starts(t)) \/ (Completes(t) /\ Quiet')
       /\ \A t \in Tasks :
          /\ (Starts(t) /\ rate_limit /= None) =>
                rate_limit' = Lowered(rate_limit, 1)
          /\ (Completes(t) /\ result'.kind = "raise") =>
                /\ rate_limit' = rate_limit
                /\ \/ result'.response = NoResponse
                   \/ json_loads(result'.response.body).raised
                   \/ result'.response.status \notin SuccessCodes
                   \/ from_http(result'.response.headers).raised]_vars

\* Calls have failed one after the other since a response reported
\* remaining 0, the last of them on a body that is not JSON, and the
\* stored count is below zero.
C15_witness ==
    /\ result.kind = "raise"
    /\ result.exc.type = "JSONDecodeError"
    /\ rate_limit /= None
    /\ rate_limit.remaining = -MaxDebt
    /\ rate_limit.limit = 5

\* C16: whatever snapshot the client has stored, with remaining positive,
\* zero or negative, and whatever the clock reads, bool() of it is true
\* exactly when remaining > 0 or now is after the reset time: with
\* remaining <= 0 it is false at every instant up to and including the
\* reset time and true at every later instant.
C16_HasCapacity ==
    rate_limit /= None =>
        \A now \in Times :
            /\ RateLimitBool(rate_limit, now)
                  <=> (rate_limit.remaining > 0 \/ now > rate_limit.reset_datetime)
            /\ (rate_limit.remaining <= 0 /\ now <= rate_limit.reset_datetime)
                  => ~RateLimitTruthy(rate_limit, now)
            /\ (rate_limit.remaining <= 0 /\ now > rate_limit.reset_datetime)
                  => RateLimitTruthy(rate_limit, now)

\* The stored count has been decremented below zero; the snapshot has no
\* capacity before and at its reset time and has capacity after it.
C16_witness ==
    /\ rate_limit /= None
    /\ rate_limit.remaining < 0
    /\ \E before, at, after \in Times :
          /\ before < rate_limit.reset_datetime
          /\ at = rate_limit.reset_datetime
          /\ after > rate_limit.reset_datetime
          /\ ~RateLimitBool(rate_limit, before)
          /\ ~RateLimitBool(rate_limit, at)
          /\ RateLimitBool(rate_limit, after)

\* The tasks with a request in flight.
InFlight == {t \in Tasks : frame[t].pc = "awaiting"}

\* C17: with any number of requests of other tasks in flight, the step in
\* which a task issues a request lowers the remaining count of the stored
\* snapshot by exactly one, keeps its limit and reset time, hands the
\* request to the transport once and leaves the other calls as they were;
\* so k requests issued with no response handled in between leave the
\* count lower by exactly k.
C17_NoDecrementLost ==
    [][\A t \in Tasks :
          Starts(t) =>
            /\ rate_limit = None => rate_limit' = None
            /\ rate_limit /= None => rate_limit' = Lowered(rate_limit, 1)
            /\ frame'[t].sends = 1
            /\ \A u \in Tasks \ {t} : frame'[u] = frame[u]
            /\ InFlight' = InFlight \cup {t}]_vars

\* Every task has a request in flight and the count of the snapshot that
\* reported remaining 0 is lower by the number of tasks.
C17_witness ==
    /\ InFlight = Tasks
    /\ rate_limit /= None
    /\ rate_limit = Lowered(RateLimit(5, 0, 2000), NumTasks)

\* The cache entries that the successful responses to a GET of the
\* resolved URL describe.
EntriesFor(filled_url) ==
    {EntryIn(Response(200, v[1], v[2])) : v \in ServerVersions(filled_url)}

\* C18: under every interleaving of calls that share the client and its
\* cache, each cache entry is the etag, last-modified and decoded body of
\* one successful response to a GET of the entry's URL: validators of one
\* response are never stored with the body of another, nor under the URL
\* of another.
C18_CacheEntryFromOneResponse ==
    /\ cache /= None
    /\ \A url \in DOMAIN cache.m :
          /\ url \in {format_url(u) : u \in Urls}
          /\ cache.m[url] \in EntriesFor(url)

\* A GET that had read the entry of version v2 was answered with version
\* v1, which the cache now holds (the response handled last wins), while
\* a request for the other URL, which had read that URL's entry, is still
\* in flight.
C18_witness ==
    /\ result.kind = "return"
    /\ result.frame.method = "GET"
    /\ result.frame.cached
    /\ Carries(result.frame.request_headers, "if-none-match", "v2")
    /\ Stored(cache, result.frame.filled_url) =
          <<PyStr(<<"v1">>), None, PyDict("id" :> PyInt(1))>>
    /\ \E t \in InFlight :
          /\ frame[t].filled_url /= result.frame.filled_url
          /\ frame[t].cached
          /\ frame[t].filled_url \in DOMAIN cache.m

\* C19: under every interleaving, a call that ends on the 304
\* short-circuit returns the body that was stored with the etag and
\* last-modified it sent in its conditional headers: the three are the
\* entry of one successful response to a GET of its URL, whatever the cache
\* holds for that URL by then.
C19_NotModifiedReturnsOwnEntry ==
    ServedFromCache =>
        /\ result.kind = "return"
        /\ result.value = result.frame.data
        /\ <<HeaderGet(result.frame.request_headers, "if-none-match"),
             HeaderGet(result.frame.request_headers, "if-modified-since"),
             result.value>> \in EntriesFor(result.frame.filled_url)

\* A call ended on the 304 short-circuit after another call had replaced
\* the cache entry of its URL: it returned the body of version v1 while
\* the cache holds version v2.
C19_witness ==
    /\ ServedFromCache
    /\ Carries(result.frame.request_headers, "if-none-match", "v1")
    /\ Returned(PyDict("id" :> PyInt(1)))
    /\ Stored(cache, result.frame.filled_url) =
          <<PyStr(<<"v2">>), PyStr(<<"Sat, 01 Jan 2022">>), PyDict("id" :> PyInt(2))>>

====
